---- MODULE Spec2Model ----
(***************************************************************************)
(* find-jsx-strings: a model of the command line tool that scans .jsx/.tsx *)
(* files for hardcoded strings.  Strings of the program are sequences of   *)
(* UTF-16 code units (what charCodeAt returns); spans are byte offsets     *)
(* into the UTF-8 encoding, as the swc parser hands them out.              *)
(***************************************************************************)
EXTENDS Integers, Sequences, FiniteSets, TLC

VARIABLES
  options,   \* the Options record main builds from the command line
  root,      \* the directory tree under <src>: what readdir/stat/readFile/parse answer
  stack,     \* readFiles: one frame per directory being listed (directory, entries left)
  pc,        \* where the run is: "main", "readFiles", "summary", "done", "failed", ...
  found,     \* the module-level counter `found`
  out,       \* the findings printed on standard output, in order
  summary,   \* the `> Found N strings` lines printed, in order
  visited,   \* history: the spans (less the offset) of the nodes the visitor
             \* dispatched on, in order
  parsed,    \* history: the paths of the files parseStrings has completed, in order
  file,      \* the file in hand: path, content and the module swc parsed from it
  span,      \* the span handed to report (specification SpecReport)
  code,      \* the code unit handed to byteLengthCharCode (specification SpecCharCode)
  width      \* what byteLengthCharCode returned for it

vars == <<options, root, stack, pc, found, out, summary, visited, parsed, file, span, code, width>>

----------------------------------------------------------------------------
(* Bounds of the model *)

\* characters (code points) in a generated source text
MaxChars == 3

\* entries in the listing of <src>
MaxEntries == 2

\* nodes in a generated module, the module itself not counted
MaxNodes == 3

----------------------------------------------------------------------------
(* Strings *)

Max(a, b) == IF a > b THEN a ELSE b
Min(a, b) == IF a < b THEN a ELSE b

\* String.prototype.slice(a, b) on a sequence of code units (0-based, negative
\* indices count from the end, an empty result when the range is empty)
Slice(s, a, b) ==
  LET len  == Len(s)
      from == IF a < 0 THEN Max(len + a, 0) ELSE Min(a, len)
      to   == IF b < 0 THEN Max(len + b, 0) ELSE Min(b, len)
  IN  IF from < to THEN SubSeq(s, from + 1, to) ELSE <<>>

\* String.prototype.slice(a) / slice(a, undefined): to the end of the string
SliceFrom(s, a) == Slice(s, a, Len(s))

\* String.prototype.includes
Includes(s, p) ==
  \E i \in 0..(Len(s) - Len(p)) : SubSeq(s, i + 1, i + Len(p)) = p

\* String.prototype.split('\n'): the pieces of s between its line feeds, from
\* index `from` (1-based) on
RECURSIVE SplitFrom(_, _)
SplitFrom(s, from) ==
  LET feeds == {i \in from..Len(s) : s[i] = 10}
  IN  IF feeds = {} THEN <<SubSeq(s, from, Len(s))>>
      ELSE LET k == CHOOSE i \in feeds : \A j \in feeds : i <= j
           IN  <<SubSeq(s, from, k - 1)>> \o SplitFrom(s, k + 1)

SplitLines(s) == SplitFrom(s, 1)

\* the white space String.prototype.trim removes: the code units that are
\* WhiteSpace (tab, VT, FF, the space separators of Unicode, U+FEFF) or
\* LineTerminator (LF, CR, U+2028, U+2029)
IsWhiteSpace(c) ==
  c \in {9, 10, 11, 12, 13, 32, 160, 5760, 8232, 8233, 8239, 8287, 12288, 65279}
         \cup (8192..8202)

RECURSIVE TrimStart(_)
TrimStart(s) ==
  IF s # <<>> /\ IsWhiteSpace(Head(s)) THEN TrimStart(Tail(s)) ELSE s

RECURSIVE TrimEnd(_)
TrimEnd(s) ==
  IF s # <<>> /\ IsWhiteSpace(s[Len(s)]) THEN TrimEnd(SubSeq(s, 1, Len(s) - 1)) ELSE s

Trim(s) == TrimEnd(TrimStart(s))

\* String(n).length for n >= 0
RECURSIVE DigitCount(_)
DigitCount(n) == IF n < 10 THEN 1 ELSE 1 + DigitCount(n \div 10)

----------------------------------------------------------------------------
(* byteLengthCharCode *)

byteLengthCharCode(c) ==
  IF c < 128 THEN 1            \* 0x0080
  ELSE IF c < 2048 THEN 2      \* 0x0800
  ELSE IF c < 55296 THEN 3     \* 0xd800
  ELSE IF c < 57343 THEN 2     \* 0xdfff
  ELSE 3

----------------------------------------------------------------------------
(* StringVisitor.report *)

\* the locals of report before its scanning loop: startLine = {lineNr, start},
\* endLine = {lineNr, end} with end undefined, byteIndex, start, end; broke
\* tells that the loop was left by its break
ScanStart ==
  [startLineNr |-> 0, startLineStart |-> 0,
   endLineNr |-> 0, endLineEnd |-> 0, endLineEndDefined |-> FALSE,
   byteIndex |-> 0, start |-> 0, end |-> 0, broke |-> FALSE]

\* one turn of the scanning loop of report, at index i (0-based)
ScanStep(content, byteStart, byteEnd, i, st) ==
  LET c   == content[i + 1]
      st1 == IF c = 10 /\ st.byteIndex < byteStart
             THEN [st EXCEPT !.startLineNr = @ + 1, !.startLineStart = i + 1]
             ELSE st
  IN  IF c = 10 /\ ~(st.byteIndex < byteEnd)
      THEN [st1 EXCEPT !.endLineEnd = i, !.endLineEndDefined = TRUE, !.broke = TRUE]
      ELSE
        LET st2 == IF c = 10 THEN [st1 EXCEPT !.endLineNr = @ + 1] ELSE st1
            st3 == IF st.byteIndex = byteStart THEN [st2 EXCEPT !.start = i] ELSE st2
            st4 == IF st.byteIndex = byteEnd THEN [st3 EXCEPT !.end = i] ELSE st3
        IN  [st4 EXCEPT !.byteIndex = @ + byteLengthCharCode(c)]

\* the turns of the loop for i = lo .. hi - 1 in order, until one breaks (the
\* range is halved to keep the evaluation shallow; the turns and their order
\* are the loop's)
RECURSIVE ScanRange(_, _, _, _, _, _)
ScanRange(content, byteStart, byteEnd, lo, hi, st) ==
  IF st.broke \/ lo >= hi THEN st
  ELSE IF hi = lo + 1 THEN ScanStep(content, byteStart, byteEnd, lo, st)
  ELSE LET mid == (lo + hi) \div 2
       IN  ScanRange(content, byteStart, byteEnd, mid, hi,
                     ScanRange(content, byteStart, byteEnd, lo, mid, st))

\* for (let i = 0; i < this.sourceContent.length; i++) { ... }
Scan(content, byteStart, byteEnd) ==
  ScanRange(content, byteStart, byteEnd, 0, Len(content), ScanStart)

\* sourceContent.slice(startLine.start, endLine.end)
ExcerptSource(content, st) ==
  IF st.endLineEndDefined
  THEN Slice(content, st.startLineStart, st.endLineEnd)
  ELSE SliceFrom(content, st.startLineStart)

\* if (skipPattern) for (const pattern of skipPattern) if (source.includes(pattern)) return
\* (an undefined skipPattern is the empty sequence: neither vetoes anything)
Vetoed(skipPattern, source) ==
  \E k \in 1..Len(skipPattern) : Includes(source, skipPattern[k])

\* the printing loop of report over source.split('\n'): the rows printed from
\* row i (0-based) on, `index` being the index of the row's first code unit
RECURSIVE Rows(_, _, _, _, _)
Rows(ls, i, index, st, lines) ==
  IF i >= Len(ls) THEN <<>>
  ELSE
    LET line == ls[i + 1]
        pre  == IF i = 0 THEN st.start - index ELSE 0
        post == IF i = lines - 1 THEN st.end - index ELSE Len(line)
    IN  <<[nr        |-> st.startLineNr + i + 1,
           pre       |-> pre,
           post      |-> post,
           before    |-> Slice(line, 0, pre),
           highlight |-> Slice(line, pre, post),
           after     |-> SliceFrom(line, post)]>>
        \o Rows(ls, i + 1, index + Len(line) + 1, st, lines)

\* what report prints for a finding: the header `sourceFile:line` (after a blank
\* line unless it is the first finding) and the rows; startLineNr and endLineNr
\* are the 0-based line counters, byteStart and byteEnd the span it was given,
\* source the lines the rows were cut from
Finding(self, fnd, byteStart, byteEnd, st) ==
  [sourceFile  |-> self.sourceFile,
   byteStart   |-> byteStart,
   byteEnd     |-> byteEnd,
   separated   |-> (fnd # 0),
   headerLine  |-> st.startLineNr + 1,
   startLineNr |-> st.startLineNr,
   endLineNr   |-> st.endLineNr,
   pad         |-> Max(4, DigitCount(st.endLineNr)),
   source      |-> ExcerptSource(self.sourceContent, st),
   rows        |-> Rows(SplitLines(ExcerptSource(self.sourceContent, st)), 0,
                        st.startLineStart, st,
                        st.endLineNr - st.startLineNr + 1)]

\* report(byteStart, byteEnd) of the visitor self = [sourceFile, sourceContent,
\* options, offset]; acc = [found, out, visited] is the state it works on
\* report counting a candidate that a skip pattern vetoes
reportCountingVetoed(self, acc, byteStart, byteEnd) ==
  LET st == Scan(self.sourceContent, byteStart, byteEnd)
  IN  IF Vetoed(self.options.skipPattern, ExcerptSource(self.sourceContent, st))
      THEN [acc EXCEPT !.found = @ + 1]
      ELSE [acc EXCEPT !.out = Append(@, Finding(self, acc.found, byteStart, byteEnd, st)),
                       !.found = @ + 1]

report(self, acc, byteStart, byteEnd) ==
  LET st == Scan(self.sourceContent, byteStart, byteEnd)
  IN  IF Vetoed(self.options.skipPattern, ExcerptSource(self.sourceContent, st))
      THEN acc
      ELSE [acc EXCEPT !.out = Append(@, Finding(self, acc.found, byteStart, byteEnd, st)),
                       !.found = @ + 1]

----------------------------------------------------------------------------
(* StringVisitor: the tree walk *)

(* A node of the parsed module is [type, span |-> [start, end], value, name,     *)
(* children]: value is the string of a JSXText or StringLiteral, name the        *)
(* resolved pieces of a JSXAttribute's name, children the nodes the base class   *)
(* Visitor walks into for the node, in source order (for a JSXAttribute: its     *)
(* value, when it has one).                                                      *)

\* the visitor parseStrings constructs, after visitModule has set its offset
StringVisitor(sourceFile, sourceContent, opts, m) ==
  [sourceFile |-> sourceFile, sourceContent |-> sourceContent,
   options |-> opts, offset |-> m.span.start]

RECURSIVE visit(_, _, _)

\* the base class Visitor on a node: it visits the node's children in order
RECURSIVE visitEach(_, _, _, _)
visitEach(self, ns, i, acc) ==
  IF i > Len(ns) THEN acc
  ELSE visitEach(self, ns, i + 1, visit(self, ns[i], acc))

superVisit(self, n, acc) == visitEach(self, n.children, 1, acc)

\* this.report(n.span.start - this.offset, n.span.end - this.offset)
reportSpan(self, acc, sp) ==
  report(self, acc, sp.start - self.offset, sp.end - self.offset)

visitJSXText(self, text, acc) ==
  LET isEmpty == Len(Trim(text.value)) < self.options.minLength
      acc1    == IF ~self.options.skipText /\ ~isEmpty
                 THEN reportSpan(self, acc, text.span)
                 ELSE acc
  IN  superVisit(self, text, acc1)

\* 'value' in attr.name ? attr.name.value : attr.name.namespace + ':' + attr.name.name
\* (an Identifier has a value; the namespace and the name of a JSXNamespacedName
\* are Identifier objects, and + converts an object to the string below)
ObjectToString == "[object Object]"

attrName(name) ==
  IF name.namespace = "" THEN name.value
  ELSE ObjectToString \o ":" \o ObjectToString

\* visitJSXAttribute reporting the value of an attribute whatever its type
visitJSXAttributeAnyValue(self, attr, acc) ==
  LET skipAttributes == self.options.skipAttributes
  IN  IF skipAttributes.kind = "true" THEN superVisit(self, attr, acc)
      ELSE IF skipAttributes.kind = "array" /\ attrName(attr.name) \in skipAttributes.names
      THEN acc
      ELSE IF attr.children # <<>>
      THEN reportSpan(self, acc, attr.children[1].span)
      ELSE superVisit(self, attr, acc)

visitJSXAttribute(self, attr, acc) ==
  LET skipAttributes == self.options.skipAttributes
      hasString == attr.children # <<>> /\ attr.children[1].type = "StringLiteral"
  IN  IF skipAttributes.kind = "true" THEN superVisit(self, attr, acc)
      ELSE IF skipAttributes.kind = "array" /\ attrName(attr.name) \in skipAttributes.names
      THEN acc
      ELSE IF hasString
      THEN IF Len(Trim(attr.children[1].value)) < self.options.minLength
           THEN acc
           ELSE reportSpan(self, acc, attr.children[1].span)
      ELSE superVisit(self, attr, acc)

visitTemplateLiteral(self, literal, acc) ==
  superVisit(self, literal,
             IF self.options.includeTemplate
             THEN reportSpan(self, acc, literal.span)
             ELSE acc)

visitStringLiteral(self, literal, acc) ==
  IF self.options.includeLiteral /\ Len(Trim(literal.value)) >= self.options.minLength
  THEN reportSpan(self, acc, literal.span)
  ELSE acc

visitImportDeclaration(self, n, acc) == acc

\* visitTsType walking into the type as the base class does for other nodes
visitTsTypeWalking(self, tsType, acc) == superVisit(self, tsType, acc)

visitTsType(self, tsType, acc) == acc

\* the dispatch of the base class on the node's type, to the methods the
\* StringVisitor overrides and to the base class's walk for every other type
visit(self, n, acc) ==
  LET acc0 == [acc EXCEPT !.visited =
                  Append(@, [start |-> n.span.start - self.offset,
                             end |-> n.span.end - self.offset])]
  IN  CASE n.type = "JSXText"           -> visitJSXText(self, n, acc0)
        [] n.type = "JSXAttribute"      -> visitJSXAttribute(self, n, acc0)
        [] n.type = "TemplateLiteral"   -> visitTemplateLiteral(self, n, acc0)
        [] n.type = "StringLiteral"     -> visitStringLiteral(self, n, acc0)
        [] n.type = "ImportDeclaration" -> visitImportDeclaration(self, n, acc0)
        [] n.type = "TsType"            -> visitTsType(self, n, acc0)
        [] OTHER                        -> superVisit(self, n, acc0)

\* visitor.visitModule(module): the offset is the module's span start, then the
\* base class walks the module's body
visitModule(sourceFile, sourceContent, opts, m, acc) ==
  superVisit(StringVisitor(sourceFile, sourceContent, opts, m), m, acc)

----------------------------------------------------------------------------
(* What the parser returns *)

Node(type, start, end, value, namespace, name, children) ==
  [type |-> type, span |-> [start |-> start, end |-> end], value |-> value,
   name |-> [namespace |-> namespace, value |-> name], children |-> children]

\* swc counts the spans of a module from the position its previous parse ended
\* at: the module n with every span moved by base
RECURSIVE Rebase(_, _)
Rebase(n, base) ==
  [n EXCEPT !.span = [start |-> @.start + base, end |-> @.end + base],
            !.children = [i \in 1..Len(@) |-> Rebase(@[i], base)]]

\* the one-line file of the scenario (a .jsx file without a final newline):
\*   <div><h1>Hi</h1><p>Start editing</p><img alt="Some alt text" other={true} data-test /></div>
ScenarioContent ==
  <<60, 100, 105, 118, 62, 60, 104, 49, 62, 72, 105, 60, 47, 104, 49, 62, 60, 112, 62, 83,
    116, 97, 114, 116, 32, 101, 100, 105, 116, 105, 110, 103, 60, 47, 112, 62, 60, 105, 109, 103,
    32, 97, 108, 116, 61, 34, 83, 111, 109, 101, 32, 97, 108, 116, 32, 116, 101, 120, 116, 34,
    32, 111, 116, 104, 101, 114, 61, 123, 116, 114, 117, 101, 125, 32, 100, 97, 116, 97, 45, 116,
    101, 115, 116, 32, 47, 62, 60, 47, 100, 105, 118, 62>>

\* the module swc parses from it, with spans counted from 0
ScenarioModule ==
  Node("Module", 0, 92, <<>>, "", "", <<
    Node("ExpressionStatement", 0, 92, <<>>, "", "", <<
      Node("JSXElement", 0, 92, <<>>, "", "", <<
        Node("JSXOpeningElement", 0, 5, <<>>, "", "", <<>>),
        Node("JSXElement", 5, 16, <<>>, "", "", <<
          Node("JSXOpeningElement", 5, 9, <<>>, "", "", <<>>),
          Node("JSXText", 9, 11, <<72, 105>>, "", "", <<>>),
          Node("JSXClosingElement", 11, 16, <<>>, "", "", <<>>)>>),
        Node("JSXElement", 16, 36, <<>>, "", "", <<
          Node("JSXOpeningElement", 16, 19, <<>>, "", "", <<>>),
          Node("JSXText", 19, 32, <<83, 116, 97, 114, 116, 32, 101, 100, 105, 116, 105, 110, 103>>, "", "", <<>>),
          Node("JSXClosingElement", 32, 36, <<>>, "", "", <<>>)>>),
        Node("JSXElement", 36, 86, <<>>, "", "", <<
          Node("JSXOpeningElement", 36, 86, <<>>, "", "", <<
            Node("JSXAttribute", 41, 60, <<>>, "", "alt", <<
              Node("StringLiteral", 45, 60, <<83, 111, 109, 101, 32, 97, 108, 116, 32, 116, 101, 120, 116>>, "", "", <<>>)>>),
            Node("JSXAttribute", 61, 73, <<>>, "", "other", <<
              Node("JSXExpressionContainer", 67, 73, <<>>, "", "", <<
                Node("BooleanLiteral", 68, 72, <<>>, "", "", <<>>)>>)>>),
            Node("JSXAttribute", 74, 83, <<>>, "", "data-test", <<>>)>>)>>),
        Node("JSXClosingElement", 86, 92, <<>>, "", "", <<>>)>>)>>)>>)

\* a typed file of several lines with characters of 2, 3 and 4 UTF-8 bytes:
\*   import x from 'm'
\*   const t: 'é' = `é${'🏿'}`
\*   const v = <p title="Café" xml:lang="en">
\*     Zoë
\*   </p>
AppContent ==
  <<105, 109, 112, 111, 114, 116, 32, 120, 32, 102, 114, 111, 109, 32, 39, 109, 39, 10, 99, 111,
    110, 115, 116, 32, 116, 58, 32, 39, 233, 39, 32, 61, 32, 96, 233, 36, 123, 39, 55356, 57343,
    39, 125, 96, 10, 99, 111, 110, 115, 116, 32, 118, 32, 61, 32, 60, 112, 32, 116, 105, 116,
    108, 101, 61, 34, 67, 97, 102, 233, 34, 32, 120, 109, 108, 58, 108, 97, 110, 103, 61, 34,
    101, 110, 34, 62, 10, 32, 32, 90, 111, 235, 10, 60, 47, 112, 62, 10>>

\* the module swc parses from it, with spans counted from 0
AppModule ==
  Node("Module", 0, 101, <<>>, "", "", <<
    Node("ImportDeclaration", 0, 17, <<>>, "", "", <<
      Node("StringLiteral", 14, 17, <<109>>, "", "", <<>>)>>),
    Node("VariableDeclaration", 18, 47, <<>>, "", "", <<
      Node("TsType", 27, 31, <<>>, "", "", <<
        Node("StringLiteral", 27, 31, <<233>>, "", "", <<>>)>>),
      Node("TemplateLiteral", 34, 47, <<>>, "", "", <<
        Node("StringLiteral", 39, 45, <<55356, 57343>>, "", "", <<>>)>>)>>),
    Node("VariableDeclaration", 48, 101, <<>>, "", "", <<
      Node("JSXElement", 58, 101, <<>>, "", "", <<
        Node("JSXOpeningElement", 58, 89, <<>>, "", "", <<
          Node("JSXAttribute", 61, 74, <<>>, "", "title", <<
            Node("StringLiteral", 67, 74, <<67, 97, 102, 233>>, "", "", <<>>)>>),
          Node("JSXAttribute", 75, 88, <<>>, "xml", "lang", <<
            Node("StringLiteral", 84, 88, <<101, 110>>, "", "", <<>>)>>)>>),
        Node("JSXText", 89, 97, <<10, 32, 32, 90, 111, 235, 10>>, "", "", <<>>),
        Node("JSXClosingElement", 97, 101, <<>>, "", "", <<>>)>>)>>)>>)

----------------------------------------------------------------------------
(* Options *)

\* skipAttributes: undefined (flag absent), true (bare flag) or an array of names
SkipNone == [kind |-> "undefined", names |-> {}]
SkipAll == [kind |-> "true", names |-> {}]
SkipNamed(names) == [kind |-> "array", names |-> names]

\* the options main passes when only <src> is given
DefaultOptions ==
  [skipAttributes |-> SkipNone, skipText |-> FALSE, skipPattern |-> <<>>,
   skipFiles |-> <<>>, minLength |-> 1, includeLiteral |-> FALSE,
   includeTemplate |-> FALSE]

\* the state report and the visitor work on
Acc == [found |-> found, out |-> out, visited |-> visited]

NoFile == [path |-> <<>>, content |-> <<>>]
NoSpan == [start |-> 0, end |-> 0]

----------------------------------------------------------------------------
(* UTF-8, as the parser counts its spans (the reference the claims name) *)

IsSurrogate(c) == 55296 <= c /\ c <= 57343

\* the UTF-8 bytes a UTF-16 code unit of well-formed text stands for: a pair of
\* surrogates is one character of 4 bytes, 2 for each unit
Utf8Width(c) ==
  IF c < 128 THEN 1 ELSE IF c < 2048 THEN 2 ELSE IF IsSurrogate(c) THEN 2 ELSE 3

RECURSIVE Utf8Len(_)
Utf8Len(s) == IF s = <<>> THEN 0 ELSE Utf8Width(Head(s)) + Utf8Len(Tail(s))

Prefix(s, i) == SubSeq(s, 1, i)

\* the indices (0..Len) of s at which a character starts or the text ends
IsBoundary(s, i) == i = 0 \/ i = Len(s) \/ ~(56320 <= s[i + 1] /\ s[i + 1] <= 57343)
Boundaries(s) == {i \in 0..Len(s) : IsBoundary(s, i)}

----------------------------------------------------------------------------
(* Specification SpecCharCode: byteLengthCharCode on every code unit *)

InitCharCode ==
  /\ code \in 0..65535
  /\ width = 0
  /\ pc = "charCode"
  /\ options = DefaultOptions
  /\ root = <<>> /\ stack = <<>>
  /\ found = 0 /\ out = <<>> /\ summary = <<>> /\ visited = <<>> /\ parsed = <<>>
  /\ file = NoFile /\ span = NoSpan

ByteLengthCharCode ==
  /\ pc = "charCode"
  /\ width' = byteLengthCharCode(code)
  /\ pc' = "returned"
  /\ UNCHANGED <<options, root, stack, found, out, summary, visited, parsed, file, span, code>>

NextCharCode == ByteLengthCharCode

SpecCharCode == InitCharCode /\ [][NextCharCode]_vars

----------------------------------------------------------------------------
(* Specification SpecReport: report on generated texts and spans *)

\* the characters of the generated texts: a, line feed, e-acute (2 bytes), the
\* euro sign (3 bytes), U+1F600 and U+1F3FF (4 bytes, a surrogate pair each)
TextChars == {<<97>>, <<10>>, <<233>>, <<8364>>, <<55357, 56832>>, <<55356, 57343>>}

RECURSIVE Texts(_)
Texts(n) ==
  IF n = 0 THEN {<<>>}
  ELSE Texts(n - 1) \cup {t \o c : t \in Texts(n - 1), c \in TextChars}

\* the byte offsets a span over content may hold: the offset of every character
\* and of the end of the text, and one past the end (a malformed span)
SpanOffsets(content) ==
  {Utf8Len(Prefix(content, i)) : i \in Boundaries(content)} \cup {Utf8Len(content) + 1}

InitReport ==
  /\ \E content \in Texts(MaxChars) \ {<<>>} :
       /\ file = [path |-> <<97>>, content |-> content]
       /\ span \in [start : SpanOffsets(content), end : SpanOffsets(content)]
  /\ \E p \in {<<>>, <<<<8364>>>>} : options = [DefaultOptions EXCEPT !.skipPattern = p]
  /\ pc = "report"
  /\ root = <<>> /\ stack = <<>>
  /\ found = 0 /\ out = <<>> /\ summary = <<>> /\ visited = <<>> /\ parsed = <<>>
  /\ code = 0 /\ width = 0

\* one call of report on the file's content
Report ==
  /\ pc = "report"
  /\ LET self == [sourceFile |-> file.path, sourceContent |-> file.content,
                  options |-> options, offset |-> 0]
         acc  == report(self, Acc, span.start, span.end)
     IN  /\ found' = acc.found
         /\ out' = acc.out
  /\ pc' = "returned"
  /\ UNCHANGED <<options, root, stack, summary, visited, parsed, file, span, code, width>>

NextReport == Report

SpecReport == InitReport /\ [][NextReport]_vars

----------------------------------------------------------------------------
(* Claims about report and byteLengthCharCode *)

\* a span within the encoded text, start before end
ValidSpan == span.start <= span.end /\ span.end <= Utf8Len(file.content)

\* the index of the character at byte offset b of the file's content
CharIndex(b) ==
  CHOOSE i \in Boundaries(file.content) : Utf8Len(Prefix(file.content, i)) = b

\* the highlighted pieces of the rows, joined by line feeds
RECURSIVE Highlighted(_)
Highlighted(rows) ==
  IF Len(rows) = 0 THEN <<>>
  ELSE IF Len(rows) = 1 THEN rows[1].highlight
  ELSE rows[1].highlight \o <<10>> \o Highlighted(Tail(rows))

LineFeeds(s) == Cardinality({i \in 1..Len(s) : s[i] = 10})

Reported == pc = "returned" /\ Len(out) = 1

\* C1: for every span s <= e within the encoded length of the text, report
\* resolves startLine <= endLine, and on a single line the start offset inside
\* the line is at most the end offset inside the line.
C1_SpanOrdered ==
  (Reported /\ ValidSpan) =>
     /\ out[1].startLineNr <= out[1].endLineNr
     /\ (out[1].startLineNr = out[1].endLineNr
           => out[1].rows[1].pre <= out[1].rows[1].post)

\* C2: with non-ASCII characters before the span, report resolves the byte span
\* to the line and the characters that slicing the text at the corresponding
\* character indices gives.
C2_MultiByteRoundTrip ==
  (Reported /\ ValidSpan
     /\ \E i \in 1..CharIndex(span.start) : file.content[i] >= 128) =>
     /\ out[1].headerLine = 1 + LineFeeds(Prefix(file.content, CharIndex(span.start)))
     /\ Highlighted(out[1].rows)
          = Slice(file.content, CharIndex(span.start), CharIndex(span.end))

\* C7: given a malformed span (end before start, or an offset beyond the encoded
\* length) report fails: it does not return, prints nothing and counts nothing.
C7_MalformedSpanFails ==
  ~ValidSpan => (pc # "returned" /\ out = <<>> /\ found = 0)

\* C9: byteLengthCharCode returns the UTF-8 bytes of every code unit: 1 below
\* 0x80, 2 below 0x800, 2 for the surrogates 0xD800..0xDFFF, 3 otherwise.
C9_ByteLengthIsUtf8Width ==
  pc = "returned" => width = Utf8Width(code)

----------------------------------------------------------------------------
(* The directory tree under <src> *)

\* path.extname of a directory entry's name: from its last dot on, empty when
\* there is none or the name starts with it
extname(name) ==
  LET dots == {i \in 1..Len(name) : name[i] = 46}
      last == IF dots = {} THEN 0 ELSE CHOOSE i \in dots : \A j \in dots : j <= i
  IN  IF last <= 1 THEN <<>> ELSE SubSeq(name, last, Len(name))

\* the segments of a path between its slashes, from position `from` on
RECURSIVE Segments(_, _)
Segments(p, from) ==
  LET slashes == {i \in from..Len(p) : p[i] = 47}
  IN  IF slashes = {} THEN <<SubSeq(p, from, Len(p))>>
      ELSE LET i == CHOOSE k \in slashes : \A j \in slashes : k <= j
           IN  <<SubSeq(p, from, i - 1)>> \o Segments(p, i + 1)

\* path.normalize on the segments: empty segments and "." are dropped, ".."
\* takes back the segment before it (and stays when the path may go above
\* its root and there is none to take back)
RECURSIVE Resolve(_, _, _, _)
Resolve(segs, i, kept, allowAboveRoot) ==
  IF i > Len(segs) THEN kept
  ELSE LET seg  == segs[i]
           up   == <<46, 46>>
           next == IF seg = <<>> \/ seg = <<46>> THEN kept
                   ELSE IF seg = up
                   THEN IF kept # <<>> /\ kept[Len(kept)] # up
                        THEN SubSeq(kept, 1, Len(kept) - 1)
                        ELSE IF allowAboveRoot THEN Append(kept, up) ELSE kept
                   ELSE Append(kept, seg)
       IN  Resolve(segs, i + 1, next, allowAboveRoot)

RECURSIVE Joined(_, _)
Joined(segs, i) ==
  IF i > Len(segs) THEN <<>>
  ELSE IF i = Len(segs) THEN segs[i]
  ELSE segs[i] \o <<47>> \o Joined(segs, i + 1)

\* path.normalize (posix)
normalize(p) ==
  IF p = <<>> THEN <<46>>
  ELSE LET isAbsolute == p[1] = 47
           trailing   == p[Len(p)] = 47
           body       == Joined(Resolve(Segments(p, 1), 1, <<>>, ~isAbsolute), 1)
           named      == IF body = <<>> /\ ~isAbsolute THEN <<46>> ELSE body
           closed     == IF named # <<>> /\ trailing THEN named \o <<47>> ELSE named
       IN  IF isAbsolute THEN <<47>> \o closed ELSE closed

\* path.join(dir, file): the non-empty arguments with a slash between them,
\* normalised
join(dir, name) ==
  IF dir = <<>> /\ name = <<>> THEN <<46>>
  ELSE IF dir = <<>> THEN normalize(name)
  ELSE IF name = <<>> THEN normalize(dir)
  ELSE normalize(dir \o <<47>> \o name)

\* ".jsx" and ".tsx"
MarkupExtensions == {<<46, 106, 115, 120>>, <<46, 116, 115, 120>>}

\* a directory entry: kind is what fs.stat finds behind the name ("file",
\* "directory", or "none" for a link to nothing), readable whether readFile or
\* readdir succeeds on it, parses whether swc accepts the content
File(name, content, m) ==
  [name |-> name, kind |-> "file", readable |-> TRUE, parses |-> TRUE,
   content |-> content, module |-> m, entries |-> <<>>]

Dir(name, readable, entries) ==
  [name |-> name, kind |-> "directory", readable |-> readable, parses |-> FALSE,
   content |-> <<>>, module |-> Node("Module", 0, 0, <<>>, "", "", <<>>),
   entries |-> entries]

\* scenario.jsx
ScenarioJsx ==
  File(<<115, 99, 101, 110, 97, 114, 105, 111, 46, 106, 115, 120>>,
       ScenarioContent, ScenarioModule)
\* app.tsx
AppTsx == File(<<97, 112, 112, 46, 116, 115, 120>>, AppContent, AppModule)
\* app.test.tsx
AppTestTsx ==
  File(<<97, 112, 112, 46, 116, 101, 115, 116, 46, 116, 115, 120>>,
       AppContent, AppModule)
\* broken.jsx: a file swc rejects
BrokenJsx ==
  [File(<<98, 114, 111, 107, 101, 110, 46, 106, 115, 120>>, <<60>>,
        Node("Module", 0, 0, <<>>, "", "", <<>>)) EXCEPT !.parses = FALSE]
\* locked.tsx: a file that cannot be read
LockedTsx ==
  [File(<<108, 111, 99, 107, 101, 100, 46, 116, 115, 120>>, <<>>,
        Node("Module", 0, 0, <<>>, "", "", <<>>)) EXCEPT !.readable = FALSE]
\* notes.md
NotesMd ==
  File(<<110, 111, 116, 101, 115, 46, 109, 100>>, <<104, 105>>,
       Node("Module", 0, 0, <<>>, "", "", <<>>))
\* dangling: a symbolic link to nothing, which readdir lists and stat fails on
Dangling == [NotesMd EXCEPT !.name = <<100, 97, 110, 103, 108, 105, 110, 103>>,
                            !.kind = "none", !.readable = FALSE]

\* sub and private, the names of the directories
SubName == <<115, 117, 98>>
PrivateName == <<112, 114, 105, 118, 97, 116, 101>>

\* what lies behind each entry the model's directories may list; a directory's
\* entries are identifiers that EntryOf resolves
EntryOf(id) ==
  CASE id = "scenario.jsx" -> ScenarioJsx
    [] id = "app.tsx"      -> AppTsx
    [] id = "app.test.tsx" -> AppTestTsx
    [] id = "broken.jsx"   -> BrokenJsx
    [] id = "locked.tsx"   -> LockedTsx
    [] id = "notes.md"     -> NotesMd
    [] id = "dangling"     -> Dangling
    [] id = "sub"          -> Dir(SubName, TRUE, <<"sub/sub", "app.tsx">>)
    [] id = "sub/sub"      -> Dir(SubName, TRUE, <<"scenario.jsx">>)
    [] id = "sub (locked)" -> Dir(SubName, TRUE, <<"locked.tsx">>)
    [] id = "private"      -> Dir(PrivateName, FALSE, <<>>)

LeafEntries ==
  {"scenario.jsx", "app.tsx", "app.test.tsx", "broken.jsx", "locked.tsx",
   "notes.md", "dangling"}

\* sub holding a directory and a file, sub holding a file that cannot be read,
\* and private, a directory that cannot be listed
SubDirs == {"sub", "sub (locked)", "private"}

\* the positions swc may count a module's spans from: from 0, or from 1 and on
\* (its positions start at 1 and go on from the previous parse)
SpanBases == {0, 1}

RECURSIVE SeqsUpTo(_, _)
SeqsUpTo(S, n) ==
  IF n = 0 THEN {<<>>}
  ELSE LET shorter == SeqsUpTo(S, n - 1)
       IN  shorter \cup {Append(q, x) : q \in shorter, x \in S}

\* /src, the absolute path main resolves <src> to
Target == <<47, 115, 114, 99>>

\* a listing names no entry twice
DistinctNames(es) ==
  \A i, j \in 1..Len(es) : EntryOf(es[i]).name = EntryOf(es[j]).name => i = j

Roots ==
  {Dir(Target, TRUE, es) :
     es \in {q \in SeqsUpTo(LeafEntries \cup SubDirs, MaxEntries) : DistinctNames(q)}}
  \cup {Dir(Target, FALSE, <<>>)}

\* "editing" and "test"
Editing == <<101, 100, 105, 116, 105, 110, 103>>
Test == <<116, 101, 115, 116>>

\* the options main builds for the command lines of the model:
\*   <src>                                  <src> --skip-pattern=editing
\*   <src> --skip-attributes                <src> --skip-attributes=alt
\*   <src> --skip-files=test                <src> --include-literal --include-template
\*   <src> --skip-attributes --include-literal
\*   <src> --skip-text --skip-pattern=editing --skip-files=test --min=3
RunOptions ==
  {DefaultOptions,
   [DefaultOptions EXCEPT !.skipPattern = <<Editing>>],
   [DefaultOptions EXCEPT !.skipAttributes = SkipAll],
   [DefaultOptions EXCEPT !.skipAttributes = SkipNamed({"alt"})],
   [DefaultOptions EXCEPT !.skipFiles = <<Test>>],
   [DefaultOptions EXCEPT !.includeLiteral = TRUE, !.includeTemplate = TRUE],
   [DefaultOptions EXCEPT !.skipAttributes = SkipAll, !.includeLiteral = TRUE],
   [DefaultOptions EXCEPT !.skipText = TRUE, !.skipPattern = <<Editing>>,
                          !.skipFiles = <<Test>>, !.minLength = 3]}

----------------------------------------------------------------------------
(* Specification Spec: main, readFiles and parseStrings over a directory tree *)

Init ==
  /\ options \in RunOptions
  /\ root \in Roots
  /\ stack = <<>>
  /\ pc = "main"
  /\ found = 0 /\ out = <<>> /\ summary = <<>> /\ visited = <<>> /\ parsed = <<>>
  /\ file = NoFile /\ span = NoSpan
  /\ code = 0 /\ width = 0

\* a frame of readFiles: the directory (its path and its entry), whether readdir
\* has answered, and the entries the loop has still to go through
Frame(dir, entry) == [dir |-> dir, entry |-> entry, listed |-> FALSE, rest |-> <<>>]

Top == stack[Len(stack)]
SetTop(frame) == [stack EXCEPT ![Len(stack)] = frame]
Pop == SubSeq(stack, 1, Len(stack) - 1)

InLoop == pc = "readFiles" /\ stack # <<>> /\ Top.listed /\ Top.rest # <<>>
Entry == EntryOf(Head(Top.rest))
Advance == SetTop([Top EXCEPT !.rest = Tail(@)])

IsMarkup(entry) == extname(entry.name) \in MarkupExtensions

\* for (const skipPattern of skipFiles) if (file.includes(skipPattern)) continue read
SkippedFile(entry) ==
  \E k \in 1..Len(options.skipFiles) : Includes(entry.name, options.skipFiles[k])

Abort ==
  /\ pc' = "failed"
  /\ UNCHANGED <<options, root, stack, found, out, summary, visited, parsed, file, span, code, width>>

\* main: the options are built, readFiles(target, options) is called
Main ==
  /\ pc = "main"
  /\ stack' = <<Frame(Target, root)>>
  /\ pc' = "readFiles"
  /\ UNCHANGED <<options, root, found, out, summary, visited, parsed, file, span, code, width>>

\* readFiles: await fs.readdir(dir) answers with the listing
ReadDir ==
  /\ pc = "readFiles" /\ stack # <<>> /\ ~Top.listed
  /\ Top.entry.readable
  /\ stack' = SetTop([Top EXCEPT !.listed = TRUE, !.rest = Top.entry.entries])
  /\ UNCHANGED <<options, root, pc, found, out, summary, visited, parsed, file, span, code, width>>

\* readFiles: fs.readdir rejects
ReadDirFails ==
  /\ pc = "readFiles" /\ stack # <<>> /\ ~Top.listed
  /\ ~Top.entry.readable
  /\ Abort

\* readFiles: a .jsx/.tsx entry whose name holds a skipFiles string is passed over
SkipFile ==
  /\ InLoop /\ IsMarkup(Entry) /\ SkippedFile(Entry)
  /\ stack' = Advance
  /\ UNCHANGED <<options, root, pc, found, out, summary, visited, parsed, file, span, code, width>>

\* parseStrings: the file is read, parsed and visited
ParseStrings ==
  /\ InLoop /\ IsMarkup(Entry) /\ ~SkippedFile(Entry)
  /\ Entry.kind = "file" /\ Entry.readable /\ Entry.parses
  /\ \E base \in SpanBases :
       LET path == join(Top.dir, Entry.name)
           acc  == visitModule(path, Entry.content, options,
                               Rebase(Entry.module, base), Acc)
       IN  /\ found' = acc.found
           /\ out' = acc.out
           /\ visited' = acc.visited
           /\ parsed' = Append(parsed, path)
  /\ stack' = Advance
  /\ UNCHANGED <<options, root, pc, summary, file, span, code, width>>

\* parseStrings going on to the next entry when fs.readFile rejects
ReadFileFailsIgnored ==
  /\ InLoop /\ IsMarkup(Entry) /\ ~SkippedFile(Entry)
  /\ ~(Entry.kind = "file" /\ Entry.readable)
  /\ stack' = Advance
  /\ UNCHANGED <<options, root, pc, found, out, summary, visited, parsed, file, span, code, width>>

\* parseStrings: fs.readFile rejects
ReadFileFails ==
  /\ InLoop /\ IsMarkup(Entry) /\ ~SkippedFile(Entry)
  /\ ~(Entry.kind = "file" /\ Entry.readable)
  /\ Abort

\* parseStrings: parse rejects
ParseFails ==
  /\ InLoop /\ IsMarkup(Entry) /\ ~SkippedFile(Entry)
  /\ Entry.kind = "file" /\ Entry.readable /\ ~Entry.parses
  /\ Abort

\* readFiles: fs.stat rejects
StatFails ==
  /\ InLoop /\ ~IsMarkup(Entry) /\ Entry.kind = "none"
  /\ Abort

\* readFiles: another kind of file is passed over
StatFile ==
  /\ InLoop /\ ~IsMarkup(Entry) /\ Entry.kind = "file"
  /\ stack' = Advance
  /\ UNCHANGED <<options, root, pc, found, out, summary, visited, parsed, file, span, code, width>>

\* readFiles: a directory: readFiles(path.join(dir, file), options) is called
StatDirectory ==
  /\ InLoop /\ ~IsMarkup(Entry) /\ Entry.kind = "directory"
  /\ stack' = Append(Advance, Frame(join(Top.dir, Entry.name), Entry))
  /\ UNCHANGED <<options, root, pc, found, out, summary, visited, parsed, file, span, code, width>>

\* readFiles: the loop is over, the call returns
ReturnFromDir ==
  /\ pc = "readFiles" /\ stack # <<>> /\ Top.listed /\ Top.rest = <<>>
  /\ stack' = Pop
  /\ UNCHANGED <<options, root, pc, found, out, summary, visited, parsed, file, span, code, width>>

\* main: readFiles has returned, the summary line is printed
Summary ==
  /\ pc = "readFiles" /\ stack = <<>>
  /\ summary' = Append(summary, found)
  /\ pc' = "done"
  /\ UNCHANGED <<options, root, stack, found, out, visited, parsed, file, span, code, width>>

Next ==
  \/ Main
  \/ ReadDir
  \/ ReadDirFails
  \/ SkipFile
  \/ ParseStrings
  \/ ReadFileFails
  \/ ParseFails
  \/ StatFails
  \/ StatFile
  \/ StatDirectory
  \/ ReturnFromDir
  \/ Summary

Spec == Init /\ [][Next]_vars

----------------------------------------------------------------------------
(* Specification SpecVisit: the visitor on generated modules *)

\* the node types a generated node may have under a node of type `parent`: the
\* types the visitor overrides, and JSXElement for the types it leaves to the
\* base class
ChildTypes(parent) ==
  CASE parent = "Module" ->
         {"ImportDeclaration", "JSXElement", "StringLiteral", "TemplateLiteral", "TsType"}
    [] parent = "JSXElement" ->
         {"JSXElement", "JSXText", "JSXAttribute", "StringLiteral", "TemplateLiteral", "TsType"}
    [] parent = "JSXAttribute" -> {"StringLiteral", "JSXElement", "TemplateLiteral"}
    [] parent = "TemplateLiteral" -> {"StringLiteral", "TemplateLiteral", "JSXElement"}
    [] parent = "ImportDeclaration" -> {"StringLiteral"}
    [] parent = "TsType" -> {"TsType", "StringLiteral", "TemplateLiteral"}
    [] OTHER -> {}

\* the sequences of trees [type, children] of n nodes in all that may stand under
\* a node of type `parent` (a JSXAttribute has one value at most)
RECURSIVE Forests(_, _)
TreesOfType(k, t) ==
  {[type |-> t, children |-> cs] :
     cs \in {f \in Forests(k - 1, t) : t = "JSXAttribute" => Len(f) <= 1}}

Forests(n, parent) ==
  IF n = 0 THEN {<<>>}
  ELSE UNION {
         {<<first>> \o rest :
            first \in UNION {TreesOfType(k, t) : t \in ChildTypes(parent)},
            rest \in Forests(n - k, parent)} :
         k \in 1..n}

\* the source text that stands before and after the children of a node:
\* <...>  ab  alt=...  'ab'  `...`  import...  :...
Opening(type) ==
  CASE type = "JSXElement" -> <<60>>
    [] type = "JSXText" -> <<97, 98>>
    [] type = "JSXAttribute" -> <<97, 108, 116, 61>>
    [] type = "StringLiteral" -> <<39, 97, 98, 39>>
    [] type = "TemplateLiteral" -> <<96>>
    [] type = "ImportDeclaration" -> <<105, 109, 112, 111, 114, 116>>
    [] type = "TsType" -> <<58>>
    [] OTHER -> <<>>

Closing(type) ==
  CASE type = "JSXElement" -> <<62>>
    [] type = "TemplateLiteral" -> <<96>>
    [] type = "Module" -> <<>>
    [] OTHER -> <<>>

\* every statement of a module stands on a line of its own
Separator(type) == IF type = "Module" THEN <<10>> ELSE <<>>

RECURSIVE TextOf(_)
RECURSIVE TextOfEach(_, _, _)
TextOfEach(ts, i, sep) ==
  IF i > Len(ts) THEN <<>> ELSE TextOf(ts[i]) \o sep \o TextOfEach(ts, i + 1, sep)

TextOf(t) ==
  Opening(t.type) \o TextOfEach(t.children, 1, Separator(t.type)) \o Closing(t.type)

\* the node swc returns for the tree t whose text starts at offset `at`
RECURSIVE Parsed(_, _)
RECURSIVE ParsedEach(_, _, _, _)
ParsedEach(ts, i, at, sep) ==
  IF i > Len(ts) THEN <<>>
  ELSE <<Parsed(ts[i], at)>>
       \o ParsedEach(ts, i + 1, at + Len(TextOf(ts[i])) + Len(sep), sep)

Parsed(t, at) ==
  Node(t.type, at, at + Len(TextOf(t)),
       IF t.type \in {"JSXText", "StringLiteral"} THEN <<97, 98>> ELSE <<>>,
       "", IF t.type = "JSXAttribute" THEN "alt" ELSE "",
       ParsedEach(t.children, 1, at + Len(Opening(t.type)), Separator(t.type)))

\* gen.tsx
GenPath == <<103, 101, 110, 46, 116, 115, 120>>

GeneratedFiles ==
  {[path |-> GenPath, content |-> TextOf(m), module |-> Parsed(m, 0)] :
     m \in {[type |-> "Module", children |-> f] :
              f \in UNION {Forests(n, "Module") : n \in 1..MaxNodes}}}

\* every combination of the options the visitor reads, without skip patterns
VisitOptions ==
  {[DefaultOptions EXCEPT !.skipAttributes = a, !.skipText = t, !.minLength = m,
                          !.includeLiteral = l, !.includeTemplate = p] :
     a \in {SkipNone, SkipAll, SkipNamed({"alt"})}, t \in BOOLEAN, m \in {1, 3},
     l \in BOOLEAN, p \in BOOLEAN}

InitVisit ==
  /\ options \in VisitOptions
  /\ file \in GeneratedFiles
  /\ pc = "visitModule"
  /\ root = <<>> /\ stack = <<>>
  /\ found = 0 /\ out = <<>> /\ summary = <<>> /\ visited = <<>> /\ parsed = <<>>
  /\ span = NoSpan /\ code = 0 /\ width = 0

\* parseStrings from the parsed module on: visitor.visitModule(module)
VisitModule ==
  /\ pc = "visitModule"
  /\ \E base \in SpanBases :
       LET acc == visitModule(file.path, file.content, options,
                              Rebase(file.module, base), Acc)
       IN  /\ found' = acc.found
           /\ out' = acc.out
           /\ visited' = acc.visited
  /\ parsed' = Append(parsed, file.path)
  /\ pc' = "returned"
  /\ UNCHANGED <<options, root, stack, summary, file, span, code, width>>

NextVisit == VisitModule

SpecVisit == InitVisit /\ [][NextVisit]_vars

----------------------------------------------------------------------------
(* Claims about the run *)

SpanOf(finding) == [start |-> finding.byteStart, end |-> finding.byteEnd]

\* the findings printed for the file at path, in order
FindingsOf(path) == SelectSeq(out, LAMBDA f : f.sourceFile = path)

SpansOf(fs) == [k \in 1..Len(fs) |-> SpanOf(fs[k])]
HighlightsOf(fs) == [k \in 1..Len(fs) |-> Highlighted(fs[k].rows)]

\* <src> holds scenario.jsx alone and the run has ended
ScenarioRun ==
  /\ pc = "done"
  /\ root = Dir(Target, TRUE, <<"scenario.jsx">>)

ScenarioPath == join(Target, ScenarioJsx.name)

\* the spans of the text of <h1>, the text of <p> and the value of alt
HiSpan == [start |-> 9, end |-> 11]
StartEditingSpan == [start |-> 19, end |-> 32]
AltValueSpan == [start |-> 45, end |-> 60]

\* C3: on the one-line scenario file, --skip-pattern=editing drops the finding
\* of <p> and keeps the findings of <h1> and of alt: the tally is 2.
C3_SkipPatternKeepsTwo ==
  (ScenarioRun /\ options = [DefaultOptions EXCEPT !.skipPattern = <<Editing>>]) =>
     /\ summary = <<2>>
     /\ SpansOf(FindingsOf(ScenarioPath)) = <<HiSpan, AltValueSpan>>

\* C4: with the default options the scenario tree gives exactly 3 findings, in
\* document order: the text of <h1>, the text of <p>, the value of alt; the
\* attributes other={true} and data-test give none.
C4_DefaultFindsThree ==
  (options = DefaultOptions /\ ScenarioPath \in {parsed[k] : k \in 1..Len(parsed)}) =>
     /\ SpansOf(FindingsOf(ScenarioPath)) = <<HiSpan, StartEditingSpan, AltValueSpan>>
     /\ HighlightsOf(FindingsOf(ScenarioPath))
          = <<ScenarioJsx.module.children[1].children[1].children[2].children[2].value,
              ScenarioJsx.module.children[1].children[1].children[3].children[2].value,
              <<34>> \o ScenarioJsx.module.children[1].children[1].children[4]
                          .children[1].children[1].children[1].value \o <<34>>>>
     /\ (ScenarioRun => summary = <<3>>)

C4_Witness ==
  ScenarioRun /\ options = DefaultOptions /\ summary = <<3>> /\ Len(out) = 3

\* C6: the counter `found` is the number of findings printed: every printed
\* finding counts once, a vetoed candidate is neither printed nor counted, and
\* the summary line carries that number.
C6_FoundCountsPrinted ==
  /\ found = Len(out)
  /\ \A k \in 1..Len(out) :
       /\ out[k].separated = (k > 1)
       /\ ~Vetoed(options.skipPattern, out[k].source)
  /\ (summary # <<>> => summary = <<Len(out)>>)

\* a run that vetoed the three candidates of scenario.jsx and printed those of app.tsx
C6_Witness ==
  /\ pc = "done"
  /\ options.skipPattern = <<Editing>>
  /\ parsed = <<ScenarioPath, join(Target, AppTsx.name)>>
  /\ FindingsOf(ScenarioPath) = <<>>
  /\ summary = <<3>>

\* what the walk over the directory tree is to do: the files to parse, in
\* listing order and depth first, up to the first entry that fails (a directory
\* or file that cannot be read, a file that does not parse, a stat that fails),
\* and whether there is none
RECURSIVE WalkEntries(_, _, _)
WalkEntries(dir, es, i) ==
  IF i > Len(es) THEN [paths |-> <<>>, ok |-> TRUE]
  ELSE
    LET e    == EntryOf(es[i])
        rest == WalkEntries(dir, es, i + 1)
        stop == [paths |-> <<>>, ok |-> FALSE]
    IN  IF IsMarkup(e)
        THEN IF SkippedFile(e) THEN rest
             ELSE IF e.kind = "file" /\ e.readable /\ e.parses
             THEN [rest EXCEPT !.paths = <<join(dir, e.name)>> \o @]
             ELSE stop
        ELSE IF e.kind = "none" THEN stop
        ELSE IF e.kind = "file" THEN rest
        ELSE IF ~e.readable THEN stop
        ELSE LET sub == WalkEntries(join(dir, e.name), e.entries, 1)
             IN  IF sub.ok THEN [rest EXCEPT !.paths = sub.paths \o @] ELSE sub

Walk == IF root.readable THEN WalkEntries(Target, root.entries, 1)
        ELSE [paths |-> <<>>, ok |-> FALSE]

IsPrefix(p, q) == Len(p) <= Len(q) /\ p = SubSeq(q, 1, Len(p))

\* C8: the summary line is printed at most once and only after every discovered
\* file has been read, parsed and visited; when a directory or a file cannot be
\* read or a file does not parse, the run aborts: no later file is processed
\* and no summary line is printed (the findings printed before remain).
C8_SummaryOnlyAfterAll ==
  /\ Len(summary) <= 1
  /\ IsPrefix(parsed, Walk.paths)
  /\ (summary # <<>> => pc = "done")
  /\ (pc = "done" => Walk.ok /\ parsed = Walk.paths /\ Len(summary) = 1)
  /\ (pc = "failed" => ~Walk.ok /\ parsed = Walk.paths /\ summary = <<>>)
  /\ \A k \in 1..Len(out) : \E j \in 1..Len(parsed) : out[k].sourceFile = parsed[j]

\* a run that printed the findings of a file and then failed on a later entry
C8_Witness ==
  /\ pc = "failed"
  /\ parsed # <<>> /\ out # <<>>
  /\ Len(root.entries) = 2

----------------------------------------------------------------------------
(* Claims about the visitor *)

RECURSIVE NodesOf(_)
NodesOf(n) == {n} \cup UNION {NodesOf(n.children[i]) : i \in 1..Len(n.children)}

Inside(n) == NodesOf(n) \ {n}

ReportedSpans == {SpanOf(out[k]) : k \in 1..Len(out)}
VisitedSpans == {visited[k] : k \in 1..Len(visited)}

\* the string literals that are the value of a JSX attribute
AttributeStrings ==
  {a.children[1] : a \in {n \in NodesOf(file.module) :
                            /\ n.type = "JSXAttribute"
                            /\ n.children # <<>>
                            /\ n.children[1].type = "StringLiteral"}}

\* C5: with skipAttributes the skip-all value (true), no string value of a JSX
\* attribute is reported, whatever the other options and the tree.
C5_SkipAllAttributes ==
  (pc = "returned" /\ options.skipAttributes = SkipAll) =>
     \A s \in AttributeStrings : s.span \notin ReportedSpans

\* the nodes inside an import declaration or inside a type
Excluded ==
  UNION {Inside(n) : n \in {m \in NodesOf(file.module) :
                              m.type \in {"ImportDeclaration", "TsType"}}}

\* the node types the visitor overrides
Classified ==
  {"JSXText", "JSXAttribute", "TemplateLiteral", "StringLiteral",
   "ImportDeclaration", "TsType"}

\* C10: no literal inside an import declaration or inside a type is reported,
\* under any options: the visitor does not walk into those subtrees, and it does
\* walk into the children of every node whose type it does not classify.
C10_ExcludedSubtrees ==
  pc = "returned" =>
     /\ \A n \in Excluded : n.span \notin ReportedSpans /\ n.span \notin VisitedSpans
     /\ \A n \in NodesOf(file.module) :
          (n.type \notin Classified /\ (n.type = "Module" \/ n.span \in VisitedSpans))
            => \A i \in 1..Len(n.children) : n.children[i].span \in VisitedSpans

\* literals are to be reported, a literal inside a type is not, a literal
\* beside it is
C10_Witness ==
  /\ pc = "returned"
  /\ options.includeLiteral /\ options.includeTemplate
  /\ \E n \in Excluded : n.type = "StringLiteral"
  /\ \E n \in NodesOf(file.module) \ Excluded :
       n.type = "StringLiteral" /\ n.span \in ReportedSpans

====
